---- MODULE Spec2Model ----
(***************************************************************************)
(* Model of ext/nmatrix/math/util.h: the functions that turn a Ruby VALUE  *)
(* (symbol, string, boolean, nil, ...) into the enum CBLAS expects or the  *)
(* char LAPACK expects.  Every translator is a pure function of its        *)
(* argument; the state machine calls a translator on an argument drawn     *)
(* from a finite set of Ruby values and records the outcome of the call:   *)
(* a returned code, or the exception that left the function.               *)
(***************************************************************************)
EXTENDS Integers, Sequences, FiniteSets, TLC

VARIABLES fn, op, result

vars == <<fn, op, result>>

(* Largest Fixnum passed as an argument (a VALUE that is no symbol/string). *)
MaxFixnum == 2

----------------------------------------------------------------------------
(* Ruby's symbol table: rb_intern gives every name one ID.                  *)

SymTab ==
  << "no_transpose", "transpose", "complex_conjugate",
     "left", "right", "upper", "lower", "unit", "nonunit",
     "row", "row_major", "col", "col_major", "column", "column_major",
     "all", "a", "return", "s", "overwrite", "o", "none", "n",
     "ALL", "N", "top", "diagonal", "yes", "compute", "v" >>

Names == { SymTab[i] : i \in 1..Len(SymTab) }

rb_intern(name) == CHOOSE i \in 1..Len(SymTab) : SymTab[i] = name

(* Ruby VALUEs.  A symbol carries its ID, a string its characters.          *)
Sym(name)  == [type |-> "T_SYMBOL", id |-> rb_intern(name), str |-> "", num |-> 0]
Str(name)  == [type |-> "T_STRING", id |-> 0, str |-> name, num |-> 0]
Fixnum(n)  == [type |-> "T_FIXNUM", id |-> 0, str |-> "", num |-> n]
Qfalse     == [type |-> "T_FALSE",  id |-> 0, str |-> "", num |-> 0]
Qtrue      == [type |-> "T_TRUE",   id |-> 0, str |-> "", num |-> 0]
Qnil       == [type |-> "T_NIL",    id |-> 0, str |-> "", num |-> 0]

Symbols == { Sym(s) : s \in Names }
Strings == { Str(s) : s \in Names }
Fixnums == { Fixnum(n) : n \in 0..MaxFixnum }
Values  == Symbols \cup Strings \cup Fixnums \cup {Qfalse, Qtrue, Qnil}

----------------------------------------------------------------------------
(* Outcomes of a statement or of a call.                                    *)

Return(c) == [status |-> "return", code |-> c, error |-> "", msg |-> ""]

(* An rb_raise that returned to its caller would let the function run on.   *)
rb_raise_returns(e, m) == [status |-> "fallthrough", code |-> 0, error |-> "", msg |-> ""]
(* rb_raise does not return: control leaves the calling function.           *)
rb_raise(e, m) == [status |-> "raise", code |-> 0, error |-> e, msg |-> m]

rb_eArgError  == "ArgumentError"
rb_eTypeError == "TypeError"

(* rb_to_id: the ID of a symbol, the interned ID of a string, and a         *)
(* TypeError for a VALUE that is neither.                                   *)
rb_to_id(v) ==
  IF v.type = "T_SYMBOL" THEN Return(v.id)
  ELSE IF v.type = "T_STRING" THEN Return(rb_intern(v.str))
  ELSE rb_raise(rb_eTypeError, "is not a symbol")

(* Conditions are three-valued: an rb_to_id inside one may raise.           *)
to_id_eq(v, id) ==
  LET r == rb_to_id(v)
  IN  IF r.status = "raise" THEN "raise"
      ELSE IF r.code = id THEN "true" ELSE "false"

val_eq(v, w) == IF v = w THEN "true" ELSE "false"

(* C's || : the right operand is evaluated only when the left is false.     *)
OrElse(a, b) == IF a = "false" THEN b ELSE a

(* if (c) a; else b;  where an exception in c leaves the function.          *)
IfElse(c, v, a, b) ==
  IF c = "raise" THEN rb_to_id(v)
  ELSE IF c = "true" THEN a ELSE b

(* s; t;  -- t runs only when s falls through.                              *)
Then(s, t) == IF s.status = "fallthrough" THEN t ELSE s

----------------------------------------------------------------------------
(* Target codes.  The CBLAS enums have the values of cblas.h; a C char is   *)
(* the integer of its character.                                            *)

CblasRowMajor  == 101
CblasColMajor  == 102
CblasNoTrans   == 111
CblasTrans     == 112
CblasConjTrans == 113
CblasUpper     == 121
CblasLower     == 122
CblasNonUnit   == 131
CblasUnit      == 132
CblasLeft      == 141
CblasRight     == 142

Ord(c) ==
  CASE c = "A" -> 65 [] c = "C" -> 67 [] c = "L" -> 76 [] c = "N" -> 78
    [] c = "O" -> 79 [] c = "S" -> 83 [] c = "T" -> 84 [] c = "U" -> 85
    [] c = "V" -> 86 [] c = "a" -> 97

(* IDs interned once at extension load (nm_init_ruby_constants).            *)
nm_rb_no_transpose      == rb_intern("no_transpose")
nm_rb_transpose         == rb_intern("transpose")
nm_rb_complex_conjugate == rb_intern("complex_conjugate")
nm_rb_left              == rb_intern("left")
nm_rb_right             == rb_intern("right")
nm_rb_upper             == rb_intern("upper")
nm_rb_lower             == rb_intern("lower")
nm_rb_unit              == rb_intern("unit")

----------------------------------------------------------------------------
(* The translators.                                                         *)

blas_transpose_sym(v) ==
  IfElse(OrElse(val_eq(v, Qfalse), to_id_eq(v, nm_rb_no_transpose)), v,
         Return(CblasNoTrans),
  IfElse(to_id_eq(v, nm_rb_transpose), v,
         Return(CblasTrans),
  IfElse(to_id_eq(v, nm_rb_complex_conjugate), v,
         Return(CblasConjTrans),
         Then(rb_raise(rb_eArgError, "Expected false, :transpose, or :complex_conjugate"),
              Return(CblasNoTrans)))))

(* lapacke_transpose_sym without the op == Qfalse test.                     *)
lapacke_transpose_sym_no_false(v) ==
  IfElse(to_id_eq(v, nm_rb_no_transpose), v,
         Return(Ord("N")),
  IfElse(to_id_eq(v, nm_rb_transpose), v,
         Return(Ord("T")),
  IfElse(to_id_eq(v, nm_rb_complex_conjugate), v,
         Return(Ord("C")),
         Then(rb_raise(rb_eArgError, "Expected false, :transpose, or :complex_conjugate"),
              Return(Ord("N"))))))

lapacke_transpose_sym(v) ==
  IfElse(OrElse(val_eq(v, Qfalse), to_id_eq(v, nm_rb_no_transpose)), v,
         Return(Ord("N")),
  IfElse(to_id_eq(v, nm_rb_transpose), v,
         Return(Ord("T")),
  IfElse(to_id_eq(v, nm_rb_complex_conjugate), v,
         Return(Ord("C")),
         Then(rb_raise(rb_eArgError, "Expected false, :transpose, or :complex_conjugate"),
              Return(Ord("N"))))))

blas_side_sym(v) ==
  IfElse(to_id_eq(v, nm_rb_left), v,  Return(CblasLeft),
  IfElse(to_id_eq(v, nm_rb_right), v, Return(CblasRight),
         Then(rb_raise(rb_eArgError, "Expected :left or :right for side argument"),
              Return(CblasLeft))))

blas_uplo_sym(v) ==
  IfElse(to_id_eq(v, nm_rb_upper), v, Return(CblasUpper),
  IfElse(to_id_eq(v, nm_rb_lower), v, Return(CblasLower),
         Then(rb_raise(rb_eArgError, "Expected :upper or :lower for uplo argument"),
              Return(CblasUpper))))

lapacke_uplo_sym(v) ==
  IfElse(to_id_eq(v, nm_rb_upper), v, Return(Ord("U")),
  IfElse(to_id_eq(v, nm_rb_lower), v, Return(Ord("L")),
         Then(rb_raise(rb_eArgError, "Expected :upper or :lower for uplo argument"),
              Return(Ord("U")))))

blas_diag_sym(v) ==
  IfElse(OrElse(to_id_eq(v, nm_rb_unit), val_eq(v, Qtrue)), v,
         Return(CblasUnit),
         Return(CblasNonUnit))

(* blas_order_sym without the column_major synonym.                         *)
blas_order_sym_no_column_major(v) ==
  IfElse(OrElse(to_id_eq(v, rb_intern("row")), to_id_eq(v, rb_intern("row_major"))), v,
         Return(CblasRowMajor),
  IfElse(OrElse(to_id_eq(v, rb_intern("col")),
         OrElse(to_id_eq(v, rb_intern("col_major")),
                to_id_eq(v, rb_intern("column")))), v,
         Return(CblasColMajor),
         Then(rb_raise(rb_eArgError, "Expected :row or :col for order argument"),
              Return(CblasRowMajor))))

blas_order_sym(v) ==
  IfElse(OrElse(to_id_eq(v, rb_intern("row")), to_id_eq(v, rb_intern("row_major"))), v,
         Return(CblasRowMajor),
  IfElse(OrElse(to_id_eq(v, rb_intern("col")),
         OrElse(to_id_eq(v, rb_intern("col_major")),
         OrElse(to_id_eq(v, rb_intern("column")),
                to_id_eq(v, rb_intern("column_major"))))), v,
         Return(CblasColMajor),
         Then(rb_raise(rb_eArgError, "Expected :row or :col for order argument"),
              Return(CblasRowMajor))))

lapack_svd_job_sym(v) ==
  IfElse(OrElse(to_id_eq(v, rb_intern("all")), to_id_eq(v, rb_intern("a"))), v,
         Return(Ord("A")),
  IfElse(OrElse(to_id_eq(v, rb_intern("return")), to_id_eq(v, rb_intern("s"))), v,
         Return(Ord("S")),
  IfElse(OrElse(to_id_eq(v, rb_intern("overwrite")), to_id_eq(v, rb_intern("o"))), v,
         Return(Ord("O")),
  IfElse(OrElse(to_id_eq(v, rb_intern("none")), to_id_eq(v, rb_intern("n"))), v,
         Return(Ord("N")),
         Then(rb_raise(rb_eArgError,
                "Expected :all, :return, :overwrite, :none (or :a, :s, :o, :n, respectively)"),
              Return(Ord("a")))))))

(* lapack_evd_job_sym with the none/n pair of lapack_svd_job_sym.           *)
lapack_evd_job_sym_none(v) ==
  IfElse(OrElse(val_eq(v, Qfalse),
         OrElse(val_eq(v, Qnil),
         OrElse(to_id_eq(v, rb_intern("none")), to_id_eq(v, rb_intern("n"))))), v,
         Return(Ord("N")),
         Return(Ord("V")))

lapack_evd_job_sym(v) ==
  IfElse(OrElse(val_eq(v, Qfalse),
         OrElse(val_eq(v, Qnil), to_id_eq(v, rb_intern("n")))), v,
         Return(Ord("N")),
         Return(Ord("V")))

----------------------------------------------------------------------------
(* The state machine: one action per translator, called on any VALUE.       *)

NoCall == [status |-> "none", code |-> 0, error |-> "", msg |-> ""]

Init == fn = "none" /\ op = Qnil /\ result = NoCall

Call_blas_transpose_sym ==
  \E v \in Values :
    fn' = "blas_transpose_sym" /\ op' = v /\ result' = blas_transpose_sym(v)

Call_lapacke_transpose_sym ==
  \E v \in Values :
    fn' = "lapacke_transpose_sym" /\ op' = v /\ result' = lapacke_transpose_sym(v)

Call_blas_side_sym ==
  \E v \in Values :
    fn' = "blas_side_sym" /\ op' = v /\ result' = blas_side_sym(v)

Call_blas_uplo_sym ==
  \E v \in Values :
    fn' = "blas_uplo_sym" /\ op' = v /\ result' = blas_uplo_sym(v)

Call_lapacke_uplo_sym ==
  \E v \in Values :
    fn' = "lapacke_uplo_sym" /\ op' = v /\ result' = lapacke_uplo_sym(v)

Call_blas_diag_sym ==
  \E v \in Values :
    fn' = "blas_diag_sym" /\ op' = v /\ result' = blas_diag_sym(v)

Call_blas_order_sym ==
  \E v \in Values :
    fn' = "blas_order_sym" /\ op' = v /\ result' = blas_order_sym(v)

Call_lapack_svd_job_sym ==
  \E v \in Values :
    fn' = "lapack_svd_job_sym" /\ op' = v /\ result' = lapack_svd_job_sym(v)

Call_lapack_evd_job_sym ==
  \E v \in Values :
    fn' = "lapack_evd_job_sym" /\ op' = v /\ result' = lapack_evd_job_sym(v)

Next ==
  \/ Call_blas_transpose_sym
  \/ Call_lapacke_transpose_sym
  \/ Call_blas_side_sym
  \/ Call_blas_uplo_sym
  \/ Call_lapacke_uplo_sym
  \/ Call_blas_diag_sym
  \/ Call_blas_order_sym
  \/ Call_lapack_svd_job_sym
  \/ Call_lapack_evd_job_sym

Spec == Init /\ [][Next]_vars

TypeOK ==
  /\ fn \in {"none", "blas_transpose_sym", "lapacke_transpose_sym", "blas_side_sym",
             "blas_uplo_sym", "lapacke_uplo_sym", "blas_diag_sym", "blas_order_sym",
             "lapack_svd_job_sym", "lapack_evd_job_sym"}
  /\ op \in Values
  /\ result.status \in {"none", "return", "raise", "fallthrough"}

----------------------------------------------------------------------------
(* Vocabulary of the properties.                                            *)

IsToken(v) == v.type \in {"T_SYMBOL", "T_STRING"}

TokenName(v) == IF v.type = "T_SYMBOL" THEN SymTab[v.id] ELSE v.str

(* v is the token spelled name, as a symbol or as a string.                 *)
Is(v, name) == IsToken(v) /\ TokenName(v) = name

Returned(c) == result = Return(c)

RaisedArgError == result.status = "raise" /\ result.error = rb_eArgError

RaisedArgErrorSaying(m) == RaisedArgError /\ result.msg = m

Codomain(f) ==
  CASE f = "blas_transpose_sym"    -> {CblasNoTrans, CblasTrans, CblasConjTrans}
    [] f = "lapacke_transpose_sym" -> {Ord("N"), Ord("T"), Ord("C")}
    [] f = "blas_side_sym"         -> {CblasLeft, CblasRight}
    [] f = "blas_uplo_sym"         -> {CblasUpper, CblasLower}
    [] f = "lapacke_uplo_sym"      -> {Ord("U"), Ord("L")}
    [] f = "blas_diag_sym"         -> {CblasUnit, CblasNonUnit}
    [] f = "blas_order_sym"        -> {CblasRowMajor, CblasColMajor}
    [] f = "lapack_svd_job_sym"    -> {Ord("A"), Ord("S"), Ord("O"), Ord("N")}
    [] f = "lapack_evd_job_sym"    -> {Ord("N"), Ord("V")}
    [] OTHER                       -> {}

----------------------------------------------------------------------------
(* C1: blas_diag_sym returns CblasUnit for the token unit and for true,     *)
(* CblasNonUnit for every other input, and never raises.                    *)
C1_DiagTotal ==
  fn = "blas_diag_sym" =>
    IF Is(op, "unit") \/ op = Qtrue
      THEN Returned(CblasUnit)
      ELSE Returned(CblasNonUnit)

(* C2 as stated: nil and false both give what the token no_transpose gives, *)
(* without error, in both transpose translators.                            *)
C2_NilAndFalseAreNoTranspose ==
  /\ (fn = "blas_transpose_sym" /\ op \in {Qnil, Qfalse}) =>
        /\ Returned(CblasNoTrans)
        /\ result = blas_transpose_sym(Sym("no_transpose"))
  /\ (fn = "lapacke_transpose_sym" /\ op \in {Qnil, Qfalse}) =>
        /\ Returned(Ord("N"))
        /\ result = lapacke_transpose_sym(Sym("no_transpose"))

(* C2 amended: false gives what the token no_transpose gives (CblasNoTrans, *)
(* 'N'), without error, in both transpose translators; nil is accepted by   *)
(* neither: the call raises and returns no code.                            *)
C2_FalseIsNoTranspose ==
  /\ (fn = "blas_transpose_sym" /\ op = Qfalse) =>
        /\ Returned(CblasNoTrans)
        /\ result = blas_transpose_sym(Sym("no_transpose"))
  /\ (fn = "lapacke_transpose_sym" /\ op = Qfalse) =>
        /\ Returned(Ord("N"))
        /\ result = lapacke_transpose_sym(Sym("no_transpose"))
  /\ (fn \in {"blas_transpose_sym", "lapacke_transpose_sym"} /\ op = Qnil) =>
        result.status = "raise"

C2_Witness ==
  fn = "lapacke_transpose_sym" /\ op = Qfalse /\ result.status = "return"

(* C3: lapack_evd_job_sym returns 'N' for nil, false and the token n, 'V'   *)
(* for every other input of any kind, and never raises.                     *)
C3_EvdTotal ==
  fn = "lapack_evd_job_sym" =>
    IF op \in {Qnil, Qfalse} \/ Is(op, "n")
      THEN Returned(Ord("N"))
      ELSE Returned(Ord("V"))

(* C4: every call of every translator either returns a code of the          *)
(* translator's codomain or raises ArgumentError; no other error kind.      *)
C4_OnlyArgumentError ==
  fn # "none" =>
    \/ result.status = "return" /\ result.code \in Codomain(fn)
    \/ RaisedArgError

(* C5: the transpose translators map no_transpose, transpose and            *)
(* complex_conjugate to CblasNoTrans/'N', CblasTrans/'T', CblasConjTrans/'C';*)
(* every input outside {nil, false, those tokens} raises ArgumentError in   *)
(* both, and both accept exactly the same inputs.                           *)
C5_TransposeVocabulary ==
  /\ fn = "blas_transpose_sym" =>
       /\ Is(op, "no_transpose") => Returned(CblasNoTrans)
       /\ Is(op, "transpose") => Returned(CblasTrans)
       /\ Is(op, "complex_conjugate") => Returned(CblasConjTrans)
       /\ CblasConjTrans \notin {CblasNoTrans, CblasTrans}
  /\ fn = "lapacke_transpose_sym" =>
       /\ Is(op, "no_transpose") => Returned(Ord("N"))
       /\ Is(op, "transpose") => Returned(Ord("T"))
       /\ Is(op, "complex_conjugate") => Returned(Ord("C"))
  /\ fn \in {"blas_transpose_sym", "lapacke_transpose_sym"} =>
       /\ ( /\ op \notin {Qnil, Qfalse}
            /\ ~Is(op, "no_transpose") /\ ~Is(op, "transpose")
            /\ ~Is(op, "complex_conjugate") )
          => RaisedArgError
       /\ (blas_transpose_sym(op).status = "return")
            <=> (lapacke_transpose_sym(op).status = "return")

SvdJobCode(name) ==
  CASE name \in {"all", "a"}       -> Ord("A")
    [] name \in {"return", "s"}    -> Ord("S")
    [] name \in {"overwrite", "o"} -> Ord("O")
    [] name \in {"none", "n"}      -> Ord("N")

SvdJobNames == {"all", "a", "return", "s", "overwrite", "o", "none", "n"}

(* C6: lapack_svd_job_sym maps all/a, return/s, overwrite/o, none/n to      *)
(* 'A','S','O','N'; every other token (ALL included) raises ArgumentError;  *)
(* a returned code is always one of the uppercase 'A','S','O','N'.          *)
C6_SvdJob ==
  fn = "lapack_svd_job_sym" =>
    /\ IsToken(op) =>
         IF TokenName(op) \in SvdJobNames
           THEN Returned(SvdJobCode(TokenName(op)))
           ELSE RaisedArgError
    /\ result.status \in {"return", "raise"}
    /\ result.status = "return" =>
         result.code \in {Ord("A"), Ord("S"), Ord("O"), Ord("N")}

C6_Witness ==
  fn = "lapack_svd_job_sym" /\ op = Sym("ALL") /\ RaisedArgError

RowNames == {"row", "row_major"}
ColNames == {"col", "col_major", "column", "column_major"}

(* C7: blas_order_sym accepts row, row_major (row-major code) and col,      *)
(* col_major, column, column_major (column-major code); the two codes       *)
(* differ; every other token raises ArgumentError.                          *)
C7_Order ==
  fn = "blas_order_sym" =>
    /\ IsToken(op) =>
         /\ TokenName(op) \in RowNames => Returned(CblasRowMajor)
         /\ TokenName(op) \in ColNames => Returned(CblasColMajor)
         /\ TokenName(op) \notin RowNames \cup ColNames => RaisedArgError
    /\ \A v, w \in Values :
         (Is(v, "row") /\ Is(w, "col")) =>
            blas_order_sym(v) # blas_order_sym(w)

C7_Witness ==
  fn = "blas_order_sym" /\ op = Sym("column_major") /\ Returned(CblasColMajor)

(* C8: blas_side_sym returns CblasLeft for left, CblasRight for right;      *)
(* every other input (the token top, false, ...) raises the ArgumentError   *)
(* that names :left and :right.                                             *)
C8_Side ==
  fn = "blas_side_sym" =>
    IF Is(op, "left") THEN Returned(CblasLeft)
    ELSE IF Is(op, "right") THEN Returned(CblasRight)
    ELSE RaisedArgErrorSaying("Expected :left or :right for side argument")

(* C9: upper gives CblasUpper and 'U', lower gives CblasLower and 'L'; the  *)
(* two uplo translators accept the same inputs, and any other input raises  *)
(* ArgumentError in both.                                                   *)
C9_Uplo ==
  /\ fn = "blas_uplo_sym" =>
       IF Is(op, "upper") THEN Returned(CblasUpper)
       ELSE IF Is(op, "lower") THEN Returned(CblasLower)
       ELSE RaisedArgError
  /\ fn = "lapacke_uplo_sym" =>
       IF Is(op, "upper") THEN Returned(Ord("U"))
       ELSE IF Is(op, "lower") THEN Returned(Ord("L"))
       ELSE RaisedArgError
  /\ fn \in {"blas_uplo_sym", "lapacke_uplo_sym"} =>
       (blas_uplo_sym(op).status = "return")
         <=> (lapacke_uplo_sym(op).status = "return")

(* C10 as stated: lapack_evd_job_sym returns 'N' for the token none, as it  *)
(* does for nil and false and as lapack_svd_job_sym does for none.          *)
C10_EvdNoneIsN ==
  (fn = "lapack_evd_job_sym" /\ Is(op, "none")) =>
    /\ Returned(Ord("N"))
    /\ result = lapack_evd_job_sym(Qnil)
    /\ result = lapack_evd_job_sym(Qfalse)
    /\ result = lapack_svd_job_sym(op)

(* C10 amended: lapack_evd_job_sym returns 'V' for the token none, which is *)
(* not what it returns for nil and false ('N') nor what lapack_svd_job_sym  *)
(* returns for none ('N').                                                  *)
C10_EvdNoneIsV ==
  (fn = "lapack_evd_job_sym" /\ Is(op, "none")) =>
    /\ Returned(Ord("V"))
    /\ lapack_evd_job_sym(Qnil) = Return(Ord("N"))
    /\ lapack_evd_job_sym(Qfalse) = Return(Ord("N"))
    /\ lapack_svd_job_sym(op) = Return(Ord("N"))

C10_Witness ==
  fn = "lapack_evd_job_sym" /\ op = Sym("none") /\ result.status = "return"

====
